---- MODULE Spec2Model ----
(***************************************************************************)
(* A model of the frog package manager: the monolithic PackageManager      *)
(* (src/src/package-manager.ts) and the layered PackageInstaller /         *)
(* PackageUninstaller / PackageUpdater / PackageRepository classes, both   *)
(* acting on the same on-disk layout: the persistent package root, the     *)
(* fast-scratch mirror, the personal bin directory and package-db.json.    *)
(*                                                                         *)
(* Strings the code splits (references, binary paths) are sequences of     *)
(* chunks in which the separators ":" and "/" are chunks of their own;     *)
(* names the code only builds and compares (keys, directory names) are     *)
(* plain strings.  A version "1.0.0" is the sequence of its numeric        *)
(* segments <<1, 0, 0>>.                                                   *)
(***************************************************************************)
EXTENDS Integers, Sequences, FiniteSets, TLC

VARIABLES
  dbFile,     \* package-db.json: the entries <<[key, cfg]>> in JSON key order
  sgoinfre,   \* directories of the persistent package root: name -> content
  goinfre,    \* directories of the fast-scratch mirror root: name -> content
  bin,        \* symlinks of the personal bin directory: link name -> target
  repoDb,     \* PackageRepository.database, the in-memory copy
  last,       \* the operation that completed last and how it ended
  pre,        \* the disk as it was when that operation started
  pc,         \* concurrent invocations: where each one is, and its record
  snap,       \* concurrent invocations: the database each one has read
  writer,     \* concurrent invocations: who wrote package-db.json last
  configFile, \* config.json of the registry: providers and default provider
  cachedConfig \* RegistryManager.cachedConfig

vars == <<dbFile, sgoinfre, goinfre, bin, repoDb, last, pre, pc, snap, writer,
          configFile, cachedConfig>>

(***************************************************************************)
(* Bounds                                                                  *)
(***************************************************************************)
MaxSegment == 1       \* version segments range over 0..MaxSegment
NumInvocations == 2   \* concurrent CLI invocations

(***************************************************************************)
(* Strings                                                                 *)
(***************************************************************************)
\* JavaScript's undefined; a template literal prints it as "undefined"
Undefined == "undefined"

RECURSIVE Str(_)
\* the string a chunk sequence spells
Str(t) == IF t = <<>> THEN "" ELSE Head(t) \o Str(Tail(t))

RECURSIVE Split(_, _)
\* String.prototype.split(sep): the pieces between the separators, empty ones kept
Split(t, sep) ==
  IF t = <<>> THEN << <<>> >>
  ELSE LET rest == Split(Tail(t), sep)
       IN IF Head(t) = sep
          THEN << <<>> >> \o rest
          ELSE << <<Head(t)>> \o Head(rest) >> \o Tail(rest)

RECURSIVE DropTrailing(_, _)
DropTrailing(t, sep) ==
  IF t # <<>> /\ t[Len(t)] = sep THEN DropTrailing(SubSeq(t, 1, Len(t) - 1), sep) ELSE t

\* path.basename: the last segment of a path, trailing slashes ignored
Basename(t) ==
  LET parts == Split(DropTrailing(t, "/"), "/")
  IN Str(parts[Len(parts)])

\* path.join(directory, relative path) inside one package directory: the
\* relative path, normalised by dropping empty segments
RelPath(t) == SelectSeq(Split(t, "/"), LAMBDA s : s # <<>>)

(***************************************************************************)
(* Versions                                                                *)
(***************************************************************************)
RECURSIVE VersionStr(_)
\* the dotted string of a version
VersionStr(v) ==
  IF Len(v) = 1 THEN ToString(v[1])
  ELSE ToString(v[1]) \o "." \o VersionStr(Tail(v))

Max(a, b) == IF a > b THEN a ELSE b

RECURSIVE CompareFromTies(_, _, _)
\* the loop of compareVersions with >= in place of >
CompareFromTies(a, b, i) ==
  IF i > Max(Len(a), Len(b)) THEN 0
  ELSE LET aPart == IF i <= Len(a) THEN a[i] ELSE 0
           bPart == IF i <= Len(b) THEN b[i] ELSE 0
       IN IF aPart >= bPart THEN 1
          ELSE IF aPart < bPart THEN -1
          ELSE CompareFromTies(a, b, i + 1)

RECURSIVE CompareFromCommon(_, _, _)
\* the loop of compareVersions stopping at the shorter version
CompareFromCommon(a, b, i) ==
  IF i > Len(a) \/ i > Len(b) THEN 0
  ELSE IF a[i] > b[i] THEN 1
  ELSE IF a[i] < b[i] THEN -1
  ELSE CompareFromCommon(a, b, i + 1)

RECURSIVE CompareFrom(_, _, _)
\* the loop of compareVersions from index i on: a missing part counts as 0
CompareFrom(a, b, i) ==
  IF i > Max(Len(a), Len(b)) THEN 0
  ELSE LET aPart == IF i <= Len(a) THEN a[i] ELSE 0
           bPart == IF i <= Len(b) THEN b[i] ELSE 0
       IN IF aPart > bPart THEN 1
          ELSE IF aPart < bPart THEN -1
          ELSE CompareFrom(a, b, i + 1)

\* utils/version.ts compareVersions
compareVersions(a, b) == CompareFrom(a, b, 1)

Versions ==
  { <<1, m>> : m \in 0..MaxSegment } \cup { <<1, 0, 0>> }

(***************************************************************************)
(* The disk: directory trees, symlinks and the database document           *)
(***************************************************************************)
\* f with key k set to v, and with key k removed (objects and directories
\* are functions whose domain is the set of names present)
Put(f, k, v) == [x \in (DOMAIN f) \cup {k} |-> IF x = k THEN v ELSE f[x]]
Del(f, k) == [x \in (DOMAIN f) \ {k} |-> f[x]]
Nothing == [x \in {} |-> x]

\* a package.json that is absent
NoCfg == [name |-> "", version |-> <<>>, provider |-> Undefined, binaries |-> <<>>]
\* a directory just made by mkdir
EmptyDir == [cfg |-> NoCfg, files |-> Nothing]

\* the relative path of a file inside a package directory, as a string
RECURSIVE JoinSegments(_)
JoinSegments(parts) ==
  IF parts = <<>> THEN ""
  ELSE IF Len(parts) = 1 THEN Str(parts[1])
  ELSE Str(parts[1]) \o "/" \o JoinSegments(Tail(parts))
NormPath(t) == JoinSegments(RelPath(t))

\* fs.cp / cpSync(source, destination, {recursive: true}): the source's files
\* are written over the destination's, files only the destination has stay
Merge(dst, src) ==
  [cfg |-> IF src.cfg # NoCfg THEN src.cfg ELSE dst.cfg,
   files |-> [p \in (DOMAIN dst.files) \cup (DOMAIN src.files) |->
               IF p \in DOMAIN src.files THEN src.files[p] ELSE dst.files[p]]]
CopyDir(tree, name, src) ==
  Put(tree, name, IF name \in DOMAIN tree THEN Merge(tree[name], src) ELSE src)

\* the file a symlink points at exists
Resolves(D, target) ==
  LET tree == IF target.root = "sgoinfre" THEN D.sg ELSE D.go
  IN /\ target.dir \in DOMAIN tree
     /\ target.file \in DOMAIN tree[target.dir].files

\* existsSync(link) and stat(link): both follow the link, so a dangling
\* symlink does not exist for them
LinkExists(D, link) == link \in DOMAIN D.bin /\ Resolves(D, D.bin[link])

\* the database document as a JavaScript object: keys in insertion order
DbHas(db, k) == \E i \in 1..Len(db) : db[i].key = k
DbGet(db, k) == db[CHOOSE i \in 1..Len(db) : db[i].key = k].cfg
DbPut(db, k, c) ==
  IF DbHas(db, k)
  THEN [i \in 1..Len(db) |-> IF db[i].key = k THEN [key |-> k, cfg |-> c] ELSE db[i]]
  ELSE Append(db, [key |-> k, cfg |-> c])
DbDel(db, k) == SelectSeq(db, LAMBDA e : e.key # k)
DbKeys(db) == { db[i].key : i \in 1..Len(db) }

Disk == [db |-> dbFile, sg |-> sgoinfre, go |-> goinfre, bin |-> bin]
EmptyDisk == [db |-> <<>>, sg |-> Nothing, go |-> Nothing, bin |-> Nothing]

(***************************************************************************)
(* What the user can install: provider registries and local directories    *)
(***************************************************************************)
\* RegistryConfig as the PackageManager's RegistryManager reads it
TrustedProviders == {"alice", "bob"}
DefaultProvider == "alice"

\* The package directories /sgoinfre/<provider>/<dir> that exist, each with
\* its package.json (name, version, binaries) and the files it ships
ProviderPackages ==
  { [provider |-> "alice", path |-> <<>>, dir |-> "eza", name |-> "eza", version |-> <<1, 0>>,
     binaries |-> << <<"eza">> >>, files |-> {"eza"}],
    [provider |-> "bob", path |-> <<>>, dir |-> "eza", name |-> "eza", version |-> <<1, 0>>,
     binaries |-> << <<"bin", "/", "eza">>, <<"exa">> >>, files |-> {"bin/eza"}],
    [provider |-> "carol", path |-> <<>>, dir |-> "eza", name |-> "eza", version |-> <<1, 0>>,
     binaries |-> << <<"eza">> >>, files |-> {"eza"}] }

\* The local package directories that exist
LocalPackages ==
  { [provider |-> Undefined, path |-> <<"/", "tmp", "/", "bat">>, dir |-> "bat",
     name |-> "bat", version |-> <<1, 0>>,
     binaries |-> << <<"bat">> >>, files |-> {"bat"}] }

\* What the user types as a package reference
References ==
  { <<"alice", ":", "eza">>, <<"bob", ":", "eza">>, <<"carol", ":", "eza">>,
    <<"eza">>, <<"/", "tmp", "/", "bat">> }

\* the content of a source directory: its package.json, and its files, each
\* holding the bytes of that version
SourceContent(p) ==
  [cfg |-> [name |-> p.name, version |-> p.version, provider |-> Undefined,
            binaries |-> p.binaries],
   files |-> [f \in p.files |-> p.version]]

\* parsePackageReference with the default provider taking precedence
ParsePartsDefaultFirst(reference, parts, defaultProvider) ==
  IF defaultProvider # Undefined /\ defaultProvider # ""
  THEN [ok |-> TRUE, provider |-> defaultProvider, name |-> Str(reference)]
  ELSE IF Len(parts) = 2
  THEN [ok |-> TRUE, provider |-> Str(parts[1]), name |-> Str(parts[2])]
  ELSE [ok |-> FALSE, provider |-> Undefined, name |-> ""]

\* parsePackageReference(reference, defaultProvider)
ParseParts(reference, parts, defaultProvider) ==
  IF Len(parts) = 2
  THEN [ok |-> TRUE, provider |-> Str(parts[1]), name |-> Str(parts[2])]
  ELSE IF defaultProvider = Undefined \/ defaultProvider = ""
  THEN [ok |-> FALSE, provider |-> Undefined, name |-> ""]
  ELSE [ok |-> TRUE, provider |-> defaultProvider, name |-> Str(reference)]
parsePackageReference(reference, defaultProvider) ==
  ParseParts(reference, Split(reference, ":"), defaultProvider)

NoSource == [ok |-> FALSE, type |-> "none", provider |-> Undefined, base |-> "",
             package |-> [provider |-> Undefined, path |-> <<>>, dir |-> "", name |-> "",
                          version |-> <<>>, binaries |-> <<>>, files |-> {}]]

\* RegistryManager.resolvePackageLocation(packageReference) of the
\* PackageManager: the provider must be trusted and the directory
\* /sgoinfre/<provider>/<name> must exist
LocatePackage(r) ==
  IF r.ok /\ r.provider \in TrustedProviders
       /\ \E p \in ProviderPackages : p.provider = r.provider /\ p.dir = r.name
  THEN [ok |-> TRUE, type |-> "provider", provider |-> r.provider, base |-> r.name,
        package |-> CHOOSE p \in ProviderPackages :
                      p.provider = r.provider /\ p.dir = r.name]
  ELSE NoSource
resolvePackageLocation(reference) ==
  LocatePackage(parsePackageReference(reference, DefaultProvider))

\* PackageManager.resolvePackage: a local path first, then a provider; the
\* remote fallback needs a package.json with a url in the working directory,
\* which no modelled run has
resolvePackage(reference) ==
  IF \E p \in LocalPackages : p.path = reference
  THEN [ok |-> TRUE, type |-> "local", provider |-> Undefined,
        base |-> Basename(reference),
        package |-> CHOOSE p \in LocalPackages : p.path = reference]
  ELSE resolvePackageLocation(reference)

(***************************************************************************)
(* PackageManager (src/src/package-manager.ts)                             *)
(***************************************************************************)
\* one turn of the loop of createSymlinks; A = [bin, made] is the bin
\* directory so far and the links this call has created
PMCreateOne(D, A, binary, dir, force) ==
  LET file == NormPath(binary)
      link == Basename(binary)
      target == [root |-> "sgoinfre", dir |-> dir, file |-> file]
      linked == [bin |-> Put(A.bin, link, target), made |-> A.made \cup {link}]
  IN IF ~(dir \in DOMAIN D.sg /\ file \in DOMAIN D.sg[dir].files)
     THEN A              \* "Binary not found in package": continue
     ELSE IF LinkExists([D EXCEPT !.bin = A.bin], link)
     THEN IF force THEN linked   \* unlinkSync, then symlinkSync
          ELSE A                 \* "already exists. Use --force": continue
     ELSE IF link \in DOMAIN A.bin
     THEN A              \* a dangling link: symlinkSync fails, nothing to clean up
     ELSE linked

RECURSIVE PMCreateSymlinks(_, _, _, _, _)
\* PackageManager.createSymlinks(binaries, packageDirectory, force)
PMCreateSymlinks(D, A, binaries, dir, force) ==
  IF binaries = <<>> THEN A
  ELSE PMCreateSymlinks(D, PMCreateOne(D, A, Head(binaries), dir, force),
                        Tail(binaries), dir, force)

\* the key install stores the record under
PMPackageKey(provider, name) ==
  IF provider # Undefined THEN provider \o ":" \o name ELSE name

\* the directory install copies the package into
PMPackageDirectoryName(source) ==
  IF source.type = "provider" /\ source.provider # Undefined
  THEN source.provider \o "_" \o source.base
  ELSE source.base

\* install from the package directory on: load package.json, stamp the
\* provider into it, link the binaries, store the record
PMInstallConfigured(D, source, dir, config, force) ==
  PMCreateSymlinks([D EXCEPT !.sg[dir].cfg = config], [bin |-> D.bin, made |-> {}],
                   config.binaries, dir, force)
PMInstallCopied(D, source, dir, config, force) ==
  [disk |-> [db |-> DbPut(D.db, PMPackageKey(source.provider, config.name), config),
             sg |-> [D.sg EXCEPT ![dir].cfg = config],
             go |-> D.go,
             bin |-> PMInstallConfigured(D, source, dir, config, force).bin],
   ok |-> TRUE,
   key |-> PMPackageKey(source.provider, config.name),
   made |-> PMInstallConfigured(D, source, dir, config, force).made]
PMInstallInto(D, source, dir, force) ==
  PMInstallCopied(D, source, dir,
    IF source.type = "provider" /\ source.provider # Undefined
    THEN [D.sg[dir].cfg EXCEPT !.provider = source.provider]
    ELSE D.sg[dir].cfg,
    force)
PMInstallFrom(D, source, dir, force) ==
  PMInstallInto([D EXCEPT !.sg = CopyDir(D.sg, dir, SourceContent(source.package))],
                source, dir, force)
PMInstallSource(D, source, force) ==
  IF ~source.ok
  THEN [disk |-> D, ok |-> FALSE, key |-> "", made |-> {}]
  ELSE PMInstallFrom(D, source, PMPackageDirectoryName(source), force)

\* PackageManager.install(packageReference, {force}): the disk it leaves,
\* whether it reported success, the key it stored and the links it created
PMInstallRun(D, reference, force) ==
  PMInstallSource(D, resolvePackage(reference), force)

RECURSIVE PMUnlinkAllByPath(_, _, _)
\* the loop looking for each link under the binary's whole relative path
PMUnlinkAllByPath(D, links, binaries) ==
  IF binaries = <<>> THEN links
  ELSE LET link == NormPath(Head(binaries))
       IN PMUnlinkAllByPath(D,
            IF LinkExists([D EXCEPT !.bin = links], link) THEN Del(links, link) ELSE links,
            Tail(binaries))

RECURSIVE PMUnlinkAll(_, _, _)
\* the "Removing symlinks" loop of uninstall
PMUnlinkAll(D, links, binaries) ==
  IF binaries = <<>> THEN links
  ELSE LET link == Basename(Head(binaries))
       IN PMUnlinkAll(D,
            IF LinkExists([D EXCEPT !.bin = links], link) THEN Del(links, link) ELSE links,
            Tail(binaries))

\* PackageManager.uninstall(packageName)
PMUninstallRun(D, packageName) ==
  IF ~DbHas(D.db, packageName)
  THEN [disk |-> D, ok |-> FALSE]
  ELSE [disk |-> [db |-> DbDel(D.db, packageName),
                  sg |-> Del(D.sg, packageName),
                  go |-> Del(D.go, packageName),
                  bin |-> PMUnlinkAll(D, D.bin, DbGet(D.db, packageName).binaries)],
        ok |-> TRUE]

RECURSIVE PMSyncBinaries(_, _, _)
\* PackageManager.syncBinaries(binaries, packagePath); D is the disk so far
PMSyncBinaries(D, binaries, dir) ==
  IF binaries = <<>> THEN D
  ELSE LET link == Basename(Head(binaries))
           target == [root |-> "goinfre", dir |-> dir, file |-> NormPath(Head(binaries))]
           unlinked == IF LinkExists(D, link) THEN Del(D.bin, link) ELSE D.bin
           relinked == IF link \in DOMAIN unlinked
                       THEN unlinked    \* a dangling link: symlinkSync fails
                       ELSE Put(unlinked, link, target)
       IN PMSyncBinaries([D EXCEPT !.bin = relinked], Tail(binaries), dir)

RECURSIVE PMSyncTasksAborting(_, _, _)
\* the per-package tasks of sync with a failed copy ending the whole run
PMSyncTasksAborting(D, entries, failing) ==
  IF entries = <<>> THEN D
  ELSE LET name == Head(entries).key
       IN IF name \notin DOMAIN D.sg
          THEN PMSyncTasksAborting(D, Tail(entries), failing)
          ELSE IF name \in failing
          THEN D
          ELSE PMSyncTasksAborting(
                 PMSyncBinaries([D EXCEPT !.go = CopyDir(D.go, name, D.sg[name])],
                                Head(entries).cfg.binaries, name),
                 Tail(entries), failing)

RECURSIVE PMSyncTasks(_, _, _)
\* the per-package tasks of sync, in the order of the database's entries: no
\* task awaits before its end, so they run one after the other; failing
\* holds the packages whose cpSync throws
PMSyncTasks(D, entries, failing) ==
  IF entries = <<>> THEN D
  ELSE LET name == Head(entries).key
       IN IF name \notin DOMAIN D.sg
          THEN PMSyncTasks(D, Tail(entries), failing)   \* "does not exist, skipping"
          ELSE IF name \in failing
          THEN PMSyncTasks(D, Tail(entries), failing)   \* "Failed to copy": return
          ELSE PMSyncTasks(
                 PMSyncBinaries([D EXCEPT !.go = CopyDir(D.go, name, D.sg[name])],
                                Head(entries).cfg.binaries, name),
                 Tail(entries), failing)

\* the tasks when no copy fails
PMSyncEach(D, entries) == PMSyncTasks(D, entries, {})

\* PackageManager.sync() with the copies of the packages in failing failing
PMSyncFailing(D, failing) == PMSyncTasks([D EXCEPT !.go = Nothing], D.db, failing)

\* PackageManager.sync()
PMSyncRun(D) == PMSyncEach([D EXCEPT !.go = Nothing], D.db)

(***************************************************************************)
(* The PackageManager as a state machine: one action per command           *)
(***************************************************************************)
Invocations == 1..NumInvocations

NoPrior == [op |-> "none", ok |-> TRUE, key |-> "", made |-> {}, dir |-> ""]
NoOp == [op |-> "none", arg |-> <<>>, force |-> FALSE, ok |-> TRUE, key |-> "",
         made |-> {}, dir |-> "", phase |-> "", code |-> "", package |-> NoCfg,
         results |-> <<>>, out |-> <<>>,
         prior |-> NoPrior]

\* the operation that completes now follows the one in last
Prior == [op |-> last.op, ok |-> last.ok, key |-> last.key, made |-> last.made,
          dir |-> last.dir]

\* what the user can pass to uninstall
PackageNames == { Str(r) : r \in References } \cup { "bat" }

\* an invocation that has not started: no package chosen yet
NotStarted == [at |-> "idle", key |-> "", cfg |-> NoCfg]

Idle ==
  /\ pc = [i \in Invocations |-> NotStarted]
  /\ snap = [i \in Invocations |-> <<>>]
  /\ writer = 0

\* the registry configuration ensureConfigFile writes: no provider, no
\* default provider
DefaultConfig == [providers |-> <<>>, defaultProvider |-> Undefined]
\* RegistryManager.cachedConfig before the first getConfig
NotCached == [cached |-> FALSE, config |-> DefaultConfig]
RegistryUntouched ==
  /\ configFile = DefaultConfig
  /\ cachedConfig = NotCached

Init ==
  /\ dbFile = <<>>
  /\ sgoinfre = Nothing
  /\ goinfre = Nothing
  /\ bin = Nothing
  /\ repoDb = <<>>
  /\ last = NoOp
  /\ pre = EmptyDisk
  /\ Idle
  /\ RegistryUntouched

\* the disk becomes D
Store(D) ==
  /\ dbFile' = D.db
  /\ sgoinfre' = D.sg
  /\ goinfre' = D.go
  /\ bin' = D.bin

PMInstall ==
  \E reference \in References, force \in BOOLEAN :
    LET R == PMInstallRun(Disk, reference, force)
    IN /\ Store(R.disk)
       /\ last' = [NoOp EXCEPT !.op = "install", !.arg = reference, !.force = force,
                               !.ok = R.ok, !.key = R.key, !.made = R.made,
                               !.dir = IF R.ok
                                       THEN PMPackageDirectoryName(resolvePackage(reference))
                                       ELSE "",
                               !.prior = Prior]
       /\ pre' = Disk
       /\ UNCHANGED <<configFile, cachedConfig, repoDb, pc, snap, writer>>

PMUninstall ==
  \E packageName \in PackageNames :
    LET R == PMUninstallRun(Disk, packageName)
    IN /\ Store(R.disk)
       /\ last' = [NoOp EXCEPT !.op = "uninstall", !.arg = <<packageName>>, !.ok = R.ok,
                               !.key = packageName, !.prior = Prior]
       /\ pre' = Disk
       /\ UNCHANGED <<configFile, cachedConfig, repoDb, pc, snap, writer>>

PMSync ==
  /\ Store(PMSyncRun(Disk))
  /\ last' = [NoOp EXCEPT !.op = "sync", !.prior = Prior]
  /\ pre' = Disk
  /\ UNCHANGED <<configFile, cachedConfig, repoDb, pc, snap, writer>>

Next == PMInstall \/ PMUninstall \/ PMSync

Spec == Init /\ [][Next]_vars

(***************************************************************************)
(* Claims about the PackageManager                                         *)
(***************************************************************************)
\* a symlink named like one of the binaries the package declares is in the
\* personal bin directory of disk D
DeclaresLinked(D, package) ==
  \E i \in 1..Len(package.binaries) : Basename(package.binaries[i]) \in DOMAIN D.bin
InstallConflict(D, reference) ==
  resolvePackage(reference).ok /\ DeclaresLinked(D, resolvePackage(reference).package)

\* C3: install without force, when a symlink named like one of the package's
\* declared binaries already exists, fails and leaves the database as it was.
C3_ConflictFailsKeepsDb ==
  (last.op = "install" /\ ~last.force /\ InstallConflict(pre, last.arg))
    => (~last.ok /\ dbFile = pre.db)

\* C5: uninstall of the key that the install just before it stored succeeds,
\* leaves no entry under that key and none of the symlinks that install made.
C5_InstallThenUninstall ==
  (last.op = "uninstall" /\ last.prior.op = "install" /\ last.prior.ok
     /\ last.key = last.prior.key)
    => /\ last.ok
       /\ ~DbHas(dbFile, last.key)
       /\ \A link \in last.prior.made : link \notin DOMAIN bin
C5_Witness ==
  /\ last.op = "uninstall" /\ last.prior.op = "install" /\ last.prior.ok
  /\ last.key = last.prior.key
  /\ last.prior.made # {}
  /\ DbHas(pre.db, last.key)

\* C7: after a successful sync every declared binary's symlink of every
\* recorded package points under the mirror root, not the persistent root.
C7_SyncLinksIntoMirror ==
  (last.op = "sync" /\ last.ok)
    => \A i \in 1..Len(dbFile) : \A j \in 1..Len(dbFile[i].cfg.binaries) :
         Basename(dbFile[i].cfg.binaries[j]) \in DOMAIN bin
           => bin[Basename(dbFile[i].cfg.binaries[j])].root = "goinfre"

(***************************************************************************)
(* The layered classes: PackageRepository, NodeFileSystem,                 *)
(* PackageInstaller, PackageUninstaller, PackageUpdater and the commands   *)
(* that drive them.  One process runs one command, so the repository's     *)
(* in-memory database starts as a copy of package-db.json.                 *)
(*                                                                         *)
(* The classes take their FileSystem as a parameter.  exists, remove,      *)
(* mkdir, copy and symlink are modelled as NodeFileSystem implements them. *)
(* readFile is modelled as the FileSystem type is used by its callers,     *)
(* JSON.parse(data.toString()): the bytes decode to the text that was      *)
(* written, as they do for a Buffer.  (NodeFileSystem.readFile wraps the   *)
(* Buffer in a plain Uint8Array, whose toString() joins the byte values    *)
(* with commas; with it no existing database or package.json parses, and   *)
(* no command gets as far as the operations modelled here.)                *)
(***************************************************************************)
\* The JavaScript values that arrive where a PackageReference is expected:
\* an object, a string (whose provider and name properties are undefined),
\* or no argument at all (reading a property of undefined throws TypeError)
Reference(provider, name) == [is |-> "object", provider |-> provider, name |-> name]
StringValue(s) == [is |-> "string", provider |-> Undefined, name |-> Undefined]
UndefinedValue == [is |-> "undefined", provider |-> Undefined, name |-> Undefined]

\* PackageRepository.createKey
createKey(reference) == reference.provider \o ":" \o reference.name

\* PackageRepository.findByReference: is there a record, and which
RepoHas(db, reference) == DbHas(db, createKey(reference))
findByReference(db, reference) == DbGet(db, createKey(reference))

\* PackageRepository.save(package_, reference): the database it leaves in
\* memory and on disk, and whether it returned
RepoSave(db, package, reference) ==
  IF reference.is = "undefined"
  THEN [db |-> db, ok |-> FALSE]     \* createKey throws before anything is set
  ELSE [db |-> DbPut(db, createKey(reference),
                     [name |-> package.name, version |-> package.version,
                      provider |-> reference.provider, binaries |-> package.binaries]),
        ok |-> TRUE]

\* PackageRepository.remove(reference)
RepoRemove(db, reference) ==
  IF DbHas(db, createKey(reference)) THEN DbDel(db, createKey(reference)) ELSE db

\* getPackageDirectory of the installer, the uninstaller and the updater
getPackageDirectory(reference) ==
  IF reference.provider # Undefined /\ reference.provider # ""
  THEN reference.provider \o "_" \o reference.name
  ELSE reference.name

\* PackageUpdater.getBackupDirectory
getBackupDirectory(reference, package) ==
  getPackageDirectory(reference) \o "_backup_" \o VersionStr(package.version)

\* NodeFileSystem.symlink(source, target) followed by the caller's chmod:
\* stat follows links, so an existing link is never seen as a symlink and
\* the call throws; a dangling link makes symlink() itself fail with EEXIST;
\* a new link is made before chmod finds out whether the source exists
NodeSymlink(D, link, target) ==
  IF link \in DOMAIN D.bin
  THEN [disk |-> D, ok |-> FALSE]
  ELSE [disk |-> [D EXCEPT !.bin = Put(D.bin, link, target)],
        ok |-> Resolves(D, target)]

RECURSIVE InstallerCreateSymlinks(_, _, _, _)
\* PackageInstaller.createSymlinks(binaries, packageDirectory, force)
InstallerCreateSymlinks(D, binaries, dir, force) ==
  IF binaries = <<>> THEN [disk |-> D, ok |-> TRUE]
  ELSE LET link == NormPath(Head(binaries))
           S == NodeSymlink(D, link, [root |-> "sgoinfre", dir |-> dir, file |-> link])
       IN IF LinkExists(D, link) /\ ~force
          THEN [disk |-> D, ok |-> FALSE]                \* BINARY_EXISTS
          ELSE IF ~S.ok THEN S                           \* SYMLINK_ERROR or ENOENT
          ELSE InstallerCreateSymlinks(S.disk, Tail(binaries), dir, force)

\* PackageInstaller.prepareDirectory: mkdir -p
prepareDirectory(D, dir) ==
  IF dir \in DOMAIN D.sg THEN D ELSE [D EXCEPT !.sg = Put(D.sg, dir, EmptyDir)]

\* PackageInstaller.install(package_, reference, force); no modelled package
\* has a url or an install script
InstallerInstall(D, package, reference, force) ==
  InstallerCreateSymlinks(prepareDirectory(D, getPackageDirectory(reference)),
                          package.binaries, getPackageDirectory(reference), force)

RECURSIVE UninstallerRemoveSymlinks(_, _)
\* PackageUninstaller.removeSymlinks(binaries): the bin directory it leaves
UninstallerRemoveSymlinks(D, binaries) ==
  IF binaries = <<>> THEN D.bin
  ELSE UninstallerRemoveSymlinks(
         IF LinkExists(D, NormPath(Head(binaries)))
         THEN [D EXCEPT !.bin = Del(D.bin, NormPath(Head(binaries)))]
         ELSE D,
         Tail(binaries))

\* PackageUninstaller.removePackageFiles: the package directory goes; the
\* scratch directory it cleans is <goinfre>/<name>, which is the mirror root
\* <goinfre>/packages only for a package of that name
UninstallerFound(D, reference, package) ==
  [disk |-> [db |-> RepoRemove(D.db, StringValue(package.name)),
             sg |-> Del(D.sg, getPackageDirectory(reference)),
             go |-> IF reference.name = "packages" THEN Nothing ELSE D.go,
             bin |-> UninstallerRemoveSymlinks(D, package.binaries)],
   ok |-> TRUE, code |-> ""]

\* an uninstall that removes the package files before it looks up the record
UninstallerUninstallFilesFirst(D, reference) ==
  IF ~RepoHas(D.db, reference)
  THEN [disk |-> [D EXCEPT !.sg = Del(D.sg, getPackageDirectory(reference))],
        ok |-> FALSE, code |-> "PKG_NOT_FOUND"]
  ELSE UninstallerFound(D, reference, findByReference(D.db, reference))

\* PackageUninstaller.uninstall(reference)
UninstallerUninstall(D, reference) ==
  IF ~RepoHas(D.db, reference)
  THEN [disk |-> D, ok |-> FALSE, code |-> "PKG_NOT_FOUND"]
  ELSE UninstallerFound(D, reference, findByReference(D.db, reference))

\* isSameVersion as a comparison of the version strings
isSameVersionExact(current, new) == current.version = new.version

\* PackageUpdater.isSameVersion
isSameVersion(current, new) == compareVersions(current.version, new.version) = 0

\* PackageUpdater.createBackup: cp -r of the package directory onto the
\* backup directory, merging into one a previous update left behind
createBackup(D, dir, backup) ==
  IF dir \in DOMAIN D.sg
  THEN [D EXCEPT !.sg = CopyDir(D.sg, backup, D.sg[dir])]
  ELSE D

\* PackageUpdater.handleUpdateFailure: remove what the failed update left,
\* copy the backup back; save(currentPackage) is called without a reference,
\* throws, and the throw is logged as a failed rollback.  The backup stays.
RestoredFrom(sg, dir, backup) ==
  IF backup \in DOMAIN sg THEN CopyDir(sg, dir, sg[backup]) ELSE sg
handleUpdateFailure(D, dir, backup, current) ==
  [D EXCEPT !.sg = RestoredFrom(Del(D.sg, dir), dir, backup),
            !.db = RepoSave(D.db, current, UndefinedValue).db]

\* PackageUpdater.performUpdate after the backup is made and the package
\* directory removed: I is how the installer ended
UpdaterInstalled(I, dir, backup, current, newPackage) ==
  IF ~I.ok
  THEN [disk |-> handleUpdateFailure(I.disk, dir, backup, current),
        ok |-> FALSE, phase |-> "install"]
  ELSE IF ~RepoSave(I.disk.db, newPackage, UndefinedValue).ok
  THEN [disk |-> handleUpdateFailure(I.disk, dir, backup, current),
        ok |-> FALSE, phase |-> "save"]
  ELSE [disk |-> [I.disk EXCEPT !.db = RepoSave(I.disk.db, newPackage, UndefinedValue).db,
                                !.sg = Del(I.disk.sg, backup)],
        ok |-> TRUE, phase |-> "done"]

\* PackageUpdater.performUpdate
performUpdate(D, reference, dir, backup, current, newPackage, force) ==
  UpdaterInstalled(
    InstallerInstall([D EXCEPT !.sg = Del(createBackup(D, dir, backup).sg, dir)],
                     newPackage, reference, force),
    dir, backup, current, newPackage)

\* PackageUpdater.update(reference, newPackage, {force})
UpdaterFound(D, reference, current, newPackage, force) ==
  IF isSameVersion(current, newPackage) /\ ~force
  THEN [disk |-> D, ok |-> TRUE, phase |-> "noop"]
  ELSE performUpdate(D, reference, getPackageDirectory(reference),
                     getBackupDirectory(reference, current), current, newPackage, force)
UpdaterUpdate(D, reference, newPackage, force) ==
  IF ~RepoHas(D.db, reference)
  THEN [disk |-> D, ok |-> FALSE, phase |-> "notfound"]  \* PKG_NOT_FOUND
  ELSE UpdaterFound(D, reference, findByReference(D.db, reference), newPackage, force)

\* PackageRepository.list(): Object.values(database)
RepoList(db) == [i \in 1..Len(db) |-> db[i].cfg]

\* the reference updateAll builds for a listed package
ListedReference(package) ==
  Reference(IF package.provider = Undefined THEN "default" ELSE package.provider,
            package.name)

\* the body of updateAll's try block: the "latest" package is the record the
\* repository itself holds for the reference
UpdateAllOne(D, reference, force) ==
  IF ~RepoHas(D.db, reference)
  THEN [disk |-> D, ok |-> FALSE, phase |-> "notfound"]   \* PKG_NOT_FOUND
  ELSE UpdaterUpdate(D, reference, findByReference(D.db, reference), force)

RECURSIVE UpdateAllEach(_, _, _, _)
RECURSIVE UpdateAllNextAborting(_, _, _, _)
\* a loop without the try/catch: the first failure ends it
UpdateAllNextAborting(U, packages, force, results) ==
  IF U.ok
  THEN UpdateAllEach(U.disk, Tail(packages), force,
                     Append(results, [name |-> Head(packages).name, success |-> TRUE]))
  ELSE [disk |-> U.disk,
        results |-> Append(results, [name |-> Head(packages).name, success |-> FALSE])]

RECURSIVE UpdateAllNext(_, _, _, _)
\* updateAll after one package was tried and ended as U: push its result,
\* whether it threw or not, and go on with the rest
UpdateAllNext(U, packages, force, results) ==
  UpdateAllEach(U.disk, Tail(packages), force,
                Append(results, [name |-> Head(packages).name, success |-> U.ok]))

\* the loop of PackageUpdater.updateAll over the listed packages
UpdateAllEach(D, packages, force, results) ==
  IF packages = <<>> THEN [disk |-> D, results |-> results]
  ELSE UpdateAllNext(UpdateAllOne(D, ListedReference(Head(packages)), force),
                     packages, force, results)

\* PackageUpdater.updateAll({force})
UpdaterUpdateAll(D, force) == UpdateAllEach(D, RepoList(D.db), force, <<>>)

\* logUpdateResults: the two lists it prints
Successful(results) == SelectSeq(results, LAMBDA r : r.success)
Failed(results) == SelectSeq(results, LAMBDA r : ~r.success)

(***************************************************************************)
(* The commands of the layered program as a state machine.  They never     *)
(* store a record themselves, so the runs start from the disks that one or *)
(* two PackageManager commands leave.                                      *)
(***************************************************************************)
\* what the user types after install, uninstall and update
CoreArguments == { <<"eza">>, <<"bob", ":", "eza">>, <<"carol", ":", "eza">> }

\* RegistryManager.getPackageInfo(location): the package.json in the
\* provider's directory
getPackageInfo(source) == SourceContent(source.package).cfg

\* the install command: parse, resolve, read the package info, install
InstallCommand(D, reference, source, force) ==
  IF ~source.ok
  THEN [disk |-> D, ok |-> FALSE]
  ELSE InstallerInstall(D, getPackageInfo(source),
                        Reference(reference.provider, reference.name), force)

\* the uninstall command
UninstallCommand(D, reference) ==
  UninstallerUninstall(D, Reference(reference.provider, reference.name))

\* the update command for one package; published is the package.json the
\* provider's directory holds by now
UpdateCommand(D, reference, source, published, force) ==
  IF ~source.ok
  THEN [disk |-> D, ok |-> FALSE, phase |-> "resolve"]
  ELSE UpdaterUpdate(D, Reference(reference.provider, reference.name), published, force)

\* what a provider may have published since: another version, with the
\* binaries as before, with none, or with its binary renamed
PublishedBinaries(source) == { source.package.binaries, <<>>, << <<"ezb">> >> }
Published(source, version, binaries) ==
  [getPackageInfo(source) EXCEPT !.version = version, !.binaries = binaries]

InstalledOnce == { PMInstallRun(EmptyDisk, r, FALSE).disk : r \in References }
InstalledThenRemoved ==
  { PMUninstallRun(d, k).disk : d \in InstalledOnce, k \in PackageNames }
CoreStartDisks == InstalledOnce \cup InstalledThenRemoved

InitCore ==
  /\ \E D \in CoreStartDisks :
       /\ dbFile = D.db
       /\ sgoinfre = D.sg
       /\ goinfre = D.go
       /\ bin = D.bin
       /\ repoDb = D.db
       /\ pre = D
  /\ last = NoOp
  /\ Idle
  /\ RegistryUntouched

CoreInstall ==
  \E argument \in CoreArguments, force \in BOOLEAN :
    LET reference == parsePackageReference(argument, DefaultProvider)
        R == InstallCommand(Disk, reference, LocatePackage(reference), force)
    IN /\ Store(R.disk)
       /\ repoDb' = R.disk.db
       /\ last' = [NoOp EXCEPT !.op = "installer.install", !.arg = argument, !.force = force,
                               !.ok = R.ok, !.key = createKey(reference),
                               !.package = getPackageInfo(LocatePackage(reference))]
       /\ pre' = Disk
       /\ UNCHANGED <<configFile, cachedConfig, pc, snap, writer>>

CoreUninstall ==
  \E argument \in CoreArguments :
    LET reference == parsePackageReference(argument, DefaultProvider)
        R == UninstallCommand(Disk, reference)
    IN /\ Store(R.disk)
       /\ repoDb' = R.disk.db
       /\ last' = [NoOp EXCEPT !.op = "uninstaller.uninstall", !.arg = argument, !.ok = R.ok,
                               !.key = createKey(reference), !.code = R.code]
       /\ pre' = Disk
       /\ UNCHANGED <<configFile, cachedConfig, pc, snap, writer>>

CoreUpdate ==
  \E argument \in CoreArguments, version \in Versions, force \in BOOLEAN :
   \E binaries \in PublishedBinaries(LocatePackage(
                     parsePackageReference(argument, DefaultProvider))) :
    LET reference == parsePackageReference(argument, DefaultProvider)
        published == Published(LocatePackage(reference), version, binaries)
        R == UpdateCommand(Disk, reference, LocatePackage(reference), published, force)
    IN /\ Store(R.disk)
       /\ repoDb' = R.disk.db
       /\ last' = [NoOp EXCEPT !.op = "updater.update", !.arg = argument, !.force = force,
                               !.ok = R.ok, !.key = createKey(reference),
                               !.phase = R.phase, !.package = published]
       /\ pre' = Disk
       /\ UNCHANGED <<configFile, cachedConfig, pc, snap, writer>>

NextCore == CoreInstall \/ CoreUninstall \/ CoreUpdate

SpecCore == InitCore /\ [][NextCore]_vars

(***************************************************************************)
(* updateAll needs several recorded packages: these runs start from the    *)
(* disks that up to three PackageManager installs leave.                   *)
(***************************************************************************)
InstalledTwice ==
  { PMInstallRun(d, r, FALSE).disk : d \in InstalledOnce, r \in References }
InstalledThrice ==
  { PMInstallRun(d, r, FALSE).disk : d \in InstalledTwice, r \in References }

InitUpdateAll ==
  /\ \E D \in InstalledTwice \cup InstalledThrice :
       /\ dbFile = D.db
       /\ sgoinfre = D.sg
       /\ goinfre = D.go
       /\ bin = D.bin
       /\ repoDb = D.db
       /\ pre = D
  /\ last = NoOp
  /\ Idle
  /\ RegistryUntouched

\* the update command without a package argument
CoreUpdateAll ==
  \E force \in BOOLEAN :
    LET R == UpdaterUpdateAll(Disk, force)
    IN /\ Store(R.disk)
       /\ repoDb' = R.disk.db
       /\ last' = [NoOp EXCEPT !.op = "updater.updateAll", !.force = force,
                               !.results = R.results]
       /\ pre' = Disk
       /\ UNCHANGED <<configFile, cachedConfig, pc, snap, writer>>

NextUpdateAll == CoreUpdateAll \/ CoreUninstall

SpecUpdateAll == InitUpdateAll /\ [][NextUpdateAll]_vars

(***************************************************************************)
(* Claims about the installer, the uninstaller and the updater             *)
(***************************************************************************)
\* the reference the last command parsed and the directory it stands for
LastReference == parsePackageReference(last.arg, DefaultProvider)
LastDirectory == getPackageDirectory(LastReference)
\* the links of the binaries the last command's package declares that were
\* in the bin directory when it started
LinkedBefore ==
  { NormPath(last.package.binaries[i]) : i \in 1..Len(last.package.binaries) }
    \cap DOMAIN pre.bin

\* C1: an update that fails in its install phase, for a recorded package
\* whose directory exists, leaves the directory with exactly the content it
\* had before the update and the record as it was.
C1_RollbackRestores ==
  (last.op = "updater.update" /\ last.phase = "install"
     /\ DbHas(pre.db, last.key) /\ LastDirectory \in DOMAIN pre.sg)
    => /\ LastDirectory \in DOMAIN sgoinfre
       /\ sgoinfre[LastDirectory] = pre.sg[LastDirectory]
       /\ DbHas(dbFile, last.key)
       /\ DbGet(dbFile, last.key) = DbGet(pre.db, last.key)

\* C4: a forced install over an existing same-named symlink succeeds, and
\* the symlink then resolves to the binary in the package directory.
C4_ForceReplacesLink ==
  (last.op = "installer.install" /\ last.force /\ LinkedBefore # {})
    => /\ last.ok
       /\ \A link \in LinkedBefore :
            /\ link \in DOMAIN bin
            /\ bin[link] = [root |-> "sgoinfre", dir |-> LastDirectory, file |-> link]
            /\ Resolves(Disk, bin[link])

\* C6: an unforced update to a version that compares equal to the recorded
\* one returns normally and changes nothing on disk: record, directory and
\* symlinks stay and no backup directory appears.
C6_SameVersionNoOp ==
  (last.op = "updater.update" /\ ~last.force /\ last.phase # "resolve"
     /\ DbHas(pre.db, last.key)
     /\ compareVersions(DbGet(pre.db, last.key).version, last.package.version) = 0)
    => (last.ok /\ Disk = pre)
C6_Witness ==
  /\ last.op = "updater.update" /\ ~last.force /\ last.phase = "noop"
  /\ DbHas(pre.db, last.key)
  /\ DbGet(pre.db, last.key).version = <<1, 0>>
  /\ last.package.version = <<1, 0, 0>>
  /\ LastDirectory \in DOMAIN sgoinfre
  /\ Disk = pre

\* C8: an update whose remove and install steps did not fail completes
\* successfully and the record found for the reference has the new version.
C8_UpdateStoresNewVersion ==
  (last.op = "updater.update" /\ last.phase \in {"save", "done"})
    => /\ last.ok
       /\ DbHas(repoDb, last.key)
       /\ DbGet(repoDb, last.key).version = last.package.version

\* C9: after the install command's install succeeded the database holds a
\* record under provider:name with the package's name, version and binaries.
C9_InstallStoresRecord ==
  (last.op = "installer.install" /\ last.ok)
    => /\ DbHas(dbFile, last.key)
       /\ DbGet(dbFile, last.key).name = last.package.name
       /\ DbGet(dbFile, last.key).version = last.package.version
       /\ DbGet(dbFile, last.key).binaries = last.package.binaries

\* C10: after a successful uninstall of an installed package no record is
\* found for the reference, in memory or in the persisted database.
C10_UninstallDeletesRecord ==
  (last.op = "uninstaller.uninstall" /\ last.ok)
    => (~DbHas(repoDb, last.key) /\ ~DbHas(dbFile, last.key))

(***************************************************************************)
(* Concurrent invocations of install.  Each is a process of its own: it    *)
(* copies the package and links its binaries, reads package-db.json, sets  *)
(* its record in the object it read and writes the object back.  Nothing   *)
(* locks the file, so reads and writes of different processes interleave.  *)
(***************************************************************************)
RECURSIVE DbMerge(_, _)
\* the entries set one by one in the document db
DbMerge(db, entries) ==
  IF entries = <<>> THEN db
  ELSE DbMerge(DbPut(db, Head(entries).key, Head(entries).cfg), Tail(entries))

\* a write that keeps the entries other processes have added meanwhile
savePackageDbMerging(file, database) == DbMerge(file, database)

\* PackageManager.savePackageDb(database): writeFileSync replaces whatever
\* the file holds by the object the process has in memory
savePackageDb(file, database) == database

\* install up to and including getPackageDb(); R is the install as it would
\* run alone, whose record is the one this process is going to store
InstallRead(p, R) ==
  /\ sgoinfre' = R.disk.sg
  /\ bin' = R.disk.bin
  /\ snap' = [snap EXCEPT ![p] = dbFile]
  /\ pc' = [pc EXCEPT ![p] =
              IF R.ok
              THEN [at |-> "read", key |-> R.key, cfg |-> DbGet(R.disk.db, R.key)]
              ELSE [at |-> "failed", key |-> "", cfg |-> NoCfg]]

RaceRead(p) ==
  /\ pc[p].at = "idle"
  /\ \E reference \in References, force \in BOOLEAN :
       InstallRead(p, PMInstallRun(Disk, reference, force))
  /\ UNCHANGED <<configFile, cachedConfig, dbFile, goinfre, repoDb, last, pre, writer>>

\* database[packageKey] = config; savePackageDb(database)
RaceWrite(p) ==
  /\ pc[p].at = "read"
  /\ dbFile' = savePackageDb(dbFile, DbPut(snap[p], pc[p].key, pc[p].cfg))
  /\ pc' = [pc EXCEPT ![p].at = "done"]
  /\ writer' = p
  /\ UNCHANGED <<configFile, cachedConfig, sgoinfre, goinfre, bin, repoDb, last, pre, snap>>

RaceStartDisks == { EmptyDisk } \cup InstalledOnce

InitRace ==
  /\ \E D \in RaceStartDisks :
       /\ dbFile = D.db
       /\ sgoinfre = D.sg
       /\ goinfre = D.go
       /\ bin = D.bin
       /\ repoDb = D.db
       /\ pre = D
  /\ last = NoOp
  /\ Idle
  /\ RegistryUntouched

NextRace == \E p \in Invocations : RaceRead(p) \/ RaceWrite(p)

SpecRace == InitRace /\ [][NextRace]_vars

\* C2: concurrent installs are not serialized.  What the file holds is what
\* the last writer had read plus its own record: the record another finished
\* invocation stored under a different key is in the file only if the last
\* writer had read it, so it is lost when the last writer read too early.
C2_LastWriteDecides ==
  \A p, q \in Invocations :
    (writer = p /\ q # p /\ pc[q].at = "done" /\ pc[q].key # pc[p].key)
      => (DbHas(dbFile, pc[q].key) <=> DbHas(snap[p], pc[q].key))
\* two invocations have finished without error, for different packages, and
\* the file holds the record of one of them only
C2_Witness ==
  \E p, q \in Invocations :
    /\ p # q /\ pc[p].at = "done" /\ pc[q].at = "done"
    /\ pc[p].key # pc[q].key
    /\ DbKeys(dbFile) = {pc[p].key}

(***************************************************************************)
(* Further claims about the PackageManager                                 *)
(***************************************************************************)
\* C11: after a successful uninstall of the package the install just before
\* it placed under the persistent root, the directory that install created
\* is gone from the persistent root and has no mirror under the scratch root.
C11_UninstallRemovesDirectory ==
  (last.op = "uninstall" /\ last.ok /\ last.prior.op = "install" /\ last.prior.ok
     /\ last.key = last.prior.key)
    => /\ last.prior.dir \notin DOMAIN sgoinfre
       /\ last.prior.dir \notin DOMAIN goinfre

(***************************************************************************)
(* Further claims about the uninstaller and the updater                    *)
(***************************************************************************)
\* the binaries of the record the last command found when it started
OldBinaries == DbGet(pre.db, last.key).binaries
OldFiles == { NormPath(OldBinaries[i]) : i \in 1..Len(OldBinaries) }
NewFiles == { NormPath(last.package.binaries[i]) : i \in 1..Len(last.package.binaries) }

\* C12: after a failed update was rolled back every binary the old record
\* declares has a symlink resolving into the restored package directory, and
\* no symlink is left that the update created for a binary only the new
\* version declares.
C12_RollbackRestoresLinks ==
  (last.op = "updater.update" /\ last.phase \in {"install", "save"}
     /\ DbHas(pre.db, last.key))
    => /\ \A file \in OldFiles : \E link \in DOMAIN bin :
            /\ bin[link] = [root |-> "sgoinfre", dir |-> LastDirectory, file |-> file]
            /\ Resolves(Disk, bin[link])
       /\ \A link \in NewFiles \ OldFiles : link \notin (DOMAIN bin) \ (DOMAIN pre.bin)

\* C13: updateAll tries every listed package exactly once, in order, whether
\* or not an earlier one failed, and each ends in exactly one of the two
\* lists that are reported.
C13_UpdateAllTriesEach ==
  last.op = "updater.updateAll"
    => /\ Len(last.results) = Len(pre.db)
       /\ \A i \in 1..Len(pre.db) : last.results[i].name = pre.db[i].cfg.name
       /\ Len(Successful(last.results)) + Len(Failed(last.results)) = Len(pre.db)
C13_Witness ==
  /\ last.op = "updater.updateAll"
  /\ Len(last.results) >= 2
  /\ \E i \in 1..Len(last.results) :
       /\ ~last.results[i].success
       /\ i < Len(last.results)
       /\ last.results[i + 1].success

\* C14: uninstall of a reference that has no record is rejected with
\* PKG_NOT_FOUND and removes no symlink, no directory and no database entry.
C14_UninstallNotFound ==
  (last.op = "uninstaller.uninstall" /\ ~DbHas(pre.db, last.key))
    => (~last.ok /\ last.code = "PKG_NOT_FOUND" /\ Disk = pre)
C14_Witness ==
  /\ last.op = "uninstaller.uninstall" /\ ~DbHas(pre.db, last.key)
  /\ LastDirectory \in DOMAIN pre.sg
  /\ LastDirectory \in DOMAIN sgoinfre
  /\ last.code = "PKG_NOT_FOUND"

(***************************************************************************)
(* The functions of the registry and of the version utilities, applied to  *)
(* inputs drawn from small sets.  last.arg holds the inputs of the call    *)
(* and last.out what it returned.  The functions keep no state between     *)
(* calls, so a behaviour is one call.                                      *)
(***************************************************************************)
\* the provider names and package names that occur
ProviderNames == {"alice", "bob", "carol"}
RegistryNames == {"eza", "bat"}
\* the package directories /sgoinfre/<provider>/<name> that may exist
RegistryDirectories == [provider : ProviderNames, name : RegistryNames]

\* join(this.sgoinfre, reference.provider, reference.name)
PackagePath(reference) == "/sgoinfre/" \o reference.provider \o "/" \o reference.name

\* resolvePackageLocation with the two checks in the other order
RegistryResolveDirectoryFirst(providers, directories, reference) ==
  IF [provider |-> reference.provider, name |-> reference.name] \notin directories
  THEN [ok |-> FALSE, code |-> "PACKAGE_NOT_FOUND", path |-> ""]
  ELSE IF reference.provider \notin providers
  THEN [ok |-> FALSE, code |-> "PROVIDER_NOT_FOUND", path |-> ""]
  ELSE [ok |-> TRUE, code |-> "", path |-> PackagePath(reference)]

\* RegistryManager.resolvePackageLocation(reference) of the layered program,
\* given config.providers and the directories that exist
RegistryResolve(providers, directories, reference) ==
  IF reference.provider \notin providers
  THEN [ok |-> FALSE, code |-> "PROVIDER_NOT_FOUND", path |-> ""]
  ELSE IF [provider |-> reference.provider, name |-> reference.name] \notin directories
  THEN [ok |-> FALSE, code |-> "PACKAGE_NOT_FOUND", path |-> ""]
  ELSE [ok |-> TRUE, code |-> "", path |-> PackagePath(reference)]

InitFn ==
  /\ dbFile = <<>>
  /\ sgoinfre = Nothing
  /\ goinfre = Nothing
  /\ bin = Nothing
  /\ repoDb = <<>>
  /\ last = NoOp
  /\ pre = EmptyDisk
  /\ Idle
  /\ RegistryUntouched

FnResolve ==
  /\ last.op = "none"
  /\ \E providers \in SUBSET ProviderNames, directories \in SUBSET RegistryDirectories,
        reference \in RegistryDirectories :
       last' = [NoOp EXCEPT
                  !.op = "resolvePackageLocation",
                  !.arg = [providers |-> providers, directories |-> directories,
                           reference |-> reference],
                  !.out = RegistryResolve(providers, directories, reference)]
  /\ UNCHANGED <<configFile, cachedConfig, dbFile, sgoinfre, goinfre, bin, repoDb, pre, pc, snap, writer>>

Entry(name, kind) == [name |-> name, kind |-> kind]
NoDirectory == [exists |-> FALSE, entries |-> <<>>]
Directory(entries) == [exists |-> TRUE, entries |-> entries]
ProviderContents ==
  { NoDirectory,
    Directory(<<>>),
    Directory(<< Entry("eza", "valid") >>),
    Directory(<< Entry("bat", "invalid"), Entry("eza", "valid") >>),
    Directory(<< Entry("notes", "file"), Entry("eza", "valid") >>),
    Directory(<< Entry("old", "dangling"), Entry("eza", "valid") >>) }
\* config.providers
ProviderLists == { <<>>, <<"alice">>, <<"alice", "bob">>, <<"bob", "alice">> }
Range(f) == { f[i] : i \in DOMAIN f }

RECURSIVE ListEntries(_, _, _)
\* the inner loop of listPackages: getStats, getPackageInfo, push; an
\* exception of getStats leaves the loop, one of getPackageInfo skips the entry
ListEntries(providerName, entries, packages) ==
  IF entries = <<>> THEN packages
  ELSE IF Head(entries).kind = "dangling" THEN packages
  ELSE IF Head(entries).kind = "valid"
  THEN ListEntries(providerName, Tail(entries),
                   Append(packages, [provider |-> providerName,
                                     name |-> Head(entries).name]))
  ELSE ListEntries(providerName, Tail(entries), packages)

RECURSIVE ListEach(_, _, _)
\* the outer loop of listPackages over the providers
ListEach(files, providers, packages) ==
  IF providers = <<>> THEN packages
  ELSE IF ~files[Head(providers)].exists
  THEN ListEach(files, Tail(providers), packages)
  ELSE ListEach(files, Tail(providers),
                ListEntries(Head(providers), files[Head(providers)].entries, packages))

\* RegistryManager.listPackages(provider?): an absent or empty provider
\* stands for the whole list
listPackages(providers, files, provider) ==
  ListEach(files,
           IF provider = Undefined \/ provider = "" THEN providers ELSE <<provider>>,
           <<>>)

FnList ==
  /\ last.op = "none"
  /\ \E providers \in ProviderLists, files \in [ProviderNames -> ProviderContents],
        provider \in ProviderNames \cup {Undefined, ""} :
       last' = [NoOp EXCEPT
                  !.op = "listPackages",
                  !.arg = [providers |-> providers, files |-> files,
                           provider |-> provider],
                  !.out = listPackages(providers, files, provider)]
  /\ UNCHANGED <<configFile, cachedConfig, dbFile, sgoinfre, goinfre, bin, repoDb, pre, pc, snap, writer>>

\* the providers the call may enumerate: the trusted list, or the given
\* provider when it is on that list
Enumerated(providers, provider) ==
  IF provider = Undefined \/ provider = "" THEN Range(providers)
  ELSE Range(providers) \cap {provider}
\* the packages with a valid package.json below the given providers
ValidPackages(files, names) ==
  { [provider |-> p, name |-> files[p].entries[i].name] :
      <<p, i>> \in { x \in names \X (1..2) :
                       /\ files[x[1]].exists
                       /\ x[2] \in DOMAIN files[x[1]].entries
                       /\ files[x[1]].entries[x[2]].kind = "valid" } }

\* C16: listPackages returns exactly the packages with a valid package.json
\* in a subdirectory of an enumerated provider, and the enumerated providers
\* are trusted ones: the whole trusted list, or the given provider only when
\* it is on the list.
C16_ListsTrustedValid ==
  last.op = "listPackages"
    => Range(last.out)
         = ValidPackages(last.arg.files, Enumerated(last.arg.providers, last.arg.provider))

\* the longest reference, in chunks
MaxChunks == 3
\* the references: every string of at most MaxChunks chunks, a chunk being a
\* name or the separator
RECURSIVE ChunkStrings(_)
ChunkStrings(n) ==
  IF n = 0 THEN { <<>> }
  ELSE ChunkStrings(n - 1)
         \cup { Append(t, c) : t \in { x \in ChunkStrings(n - 1) : Len(x) = n - 1 },
                               c \in {"alice", ":", "eza"} }
ReferenceStrings == ChunkStrings(MaxChunks)
\* config.defaultProvider
DefaultProviders == {Undefined, "", "alice", "bob"}

FnParse ==
  /\ last.op = "none"
  /\ \E reference \in ReferenceStrings, defaultProvider \in DefaultProviders :
       last' = [NoOp EXCEPT
                  !.op = "parsePackageReference",
                  !.arg = [reference |-> reference, defaultProvider |-> defaultProvider],
                  !.out = parsePackageReference(reference, defaultProvider)]
  /\ UNCHANGED <<configFile, cachedConfig, dbFile, sgoinfre, goinfre, bin, repoDb, pre, pc, snap, writer>>

\* the positions of the separator in a reference
Colons(reference) == { i \in DOMAIN reference : reference[i] = ":" }
\* the text before and after position i
Before(reference, i) == Str(SubSeq(reference, 1, i - 1))
After(reference, i) == Str(SubSeq(reference, i + 1, Len(reference)))

\* C17: a reference with exactly one ':' parses to the text before and the
\* text after the colon whatever the default provider is; a reference
\* without ':' parses to the default provider and the whole reference when
\* there is a default provider, and fails when there is none (undefined or
\* empty).
C17_ParseReference ==
  last.op = "parsePackageReference"
    => /\ Cardinality(Colons(last.arg.reference)) = 1
            => /\ last.out.ok
               /\ \A i \in Colons(last.arg.reference) :
                    /\ last.out.provider = Before(last.arg.reference, i)
                    /\ last.out.name = After(last.arg.reference, i)
       /\ (Colons(last.arg.reference) = {} /\ last.arg.defaultProvider \notin {Undefined, ""})
            => /\ last.out.ok
               /\ last.out.provider = last.arg.defaultProvider
               /\ last.out.name = Str(last.arg.reference)
       /\ (Colons(last.arg.reference) = {} /\ last.arg.defaultProvider \in {Undefined, ""})
            => ~last.out.ok
C17_Witness ==
  /\ last.op = "parsePackageReference"
  /\ last.arg.reference = <<"alice", ":", "eza">>
  /\ last.arg.defaultProvider = "bob"
  /\ last.out.ok /\ last.out.provider = "alice" /\ last.out.name = "eza"

\* C18: every reference parsePackageReference returns has a non-empty name.
C18_NameNonEmpty ==
  (last.op = "parsePackageReference" /\ last.out.ok) => last.out.name # ""

\* the most segments of a version string
MaxLen == 2
\* the segments of a version string, as digit sequences: "0", "1", "01", "10"
Segments == { <<0>>, <<1>>, <<0, 1>>, <<1, 0>> }
RECURSIVE SegmentStrings(_)
\* the dotted-numeric strings of at most n segments
SegmentStrings(n) ==
  IF n = 1 THEN { <<s>> : s \in Segments }
  ELSE SegmentStrings(n - 1)
         \cup { Append(v, s) : v \in { x \in SegmentStrings(n - 1) : Len(x) = n - 1 },
                               s \in Segments }
VersionStrings == SegmentStrings(MaxLen)

\* two segments beyond the integers a double holds exactly:
\* "9007199254740992" (2^53) and "9007199254740993" (2^53 + 1)
Seg2To53 == <<9, 0, 0, 7, 1, 9, 9, 2, 5, 4, 7, 4, 0, 9, 9, 2>>
Seg2To53Plus1 == <<9, 0, 0, 7, 1, 9, 9, 2, 5, 4, 7, 4, 0, 9, 9, 3>>
LongVersions == { <<Seg2To53>>, <<Seg2To53Plus1>>, <<Seg2To53Plus1, <<0>>>> }
\* the strings compareVersions is called with
CompareInputs == VersionStrings \cup LongVersions

\* the double 2^53.  The values of Number are only compared with each other
\* and with 0, so 2^53 stands in the model as a value above every other one.
TwoTo53 == 1000000

RECURSIVE Decimal(_)
\* the decimal value of a short digit string
Decimal(digits) ==
  IF digits = <<>> THEN 0
  ELSE 10 * Decimal(SubSeq(digits, 1, Len(digits) - 1)) + digits[Len(digits)]

\* Number(segment) reading only the first digit
NumberFirstDigit(digits) == IF digits = <<>> THEN 0 ELSE digits[1]

\* Number(segment): the double nearest to the decimal value of the digits.
\* 2^53 + 1 is no double and rounds to 2^53 (round to nearest, ties to even).
Number(digits) ==
  IF digits \in {Seg2To53, Seg2To53Plus1} THEN TwoTo53 ELSE Decimal(digits)
\* normalize: v.split('.').map(Number)
normalize(v) == [i \in 1..Len(v) |-> Number(v[i])]
\* compareVersions on the strings themselves
compareVersionStrings(a, b) == compareVersions(normalize(a), normalize(b))

FnCompare ==
  /\ last.op = "none"
  /\ \E a \in CompareInputs, b \in CompareInputs :
       last' = [NoOp EXCEPT
                  !.op = "compareVersions",
                  !.arg = [a |-> a, b |-> b],
                  !.out = compareVersionStrings(a, b)]
  /\ UNCHANGED <<configFile, cachedConfig, dbFile, sgoinfre, goinfre, bin, repoDb, pre, pc, snap, writer>>

\* C19: compareVersions is antisymmetric over the dotted-numeric strings:
\* compareVersions(a, b) = -compareVersions(b, a).
C19_Antisymmetric ==
  last.op = "compareVersions"
    => last.out = -compareVersionStrings(last.arg.b, last.arg.a)
C19_Witness ==
  /\ last.op = "compareVersions"
  /\ Len(last.arg.a) < Len(last.arg.b)
  /\ last.out = 1
  /\ compareVersionStrings(last.arg.b, last.arg.a) = -1

\* C20: compareVersions is transitive over the dotted-numeric strings: from
\* compareVersions(a, b) <= 0 and compareVersions(b, c) <= 0 follows
\* compareVersions(a, c) <= 0, and that result is 0 only if both premises
\* are 0.
C20_Transitive ==
  last.op = "compareVersions"
    => \A c \in CompareInputs :
         (last.out <= 0 /\ compareVersionStrings(last.arg.b, c) <= 0)
           => /\ compareVersionStrings(last.arg.a, c) <= 0
              /\ compareVersionStrings(last.arg.a, c) = 0
                   => (last.out = 0 /\ compareVersionStrings(last.arg.b, c) = 0)
C20_Witness ==
  /\ last.op = "compareVersions"
  /\ last.out = 0
  /\ last.arg.a # last.arg.b
  /\ Len(last.arg.a) > Len(last.arg.b)
  /\ \E c \in CompareInputs :
       /\ compareVersionStrings(last.arg.b, c) = -1
       /\ compareVersionStrings(last.arg.a, c) = -1

RECURSIVE StripZeros(_)
\* a digit string without its leading zeros
StripZeros(digits) ==
  IF digits # <<>> /\ Head(digits) = 0 THEN StripZeros(Tail(digits)) ELSE digits
RECURSIVE DigitsCompare(_, _, _)
\* two digit strings of one length compared from position i on
DigitsCompare(x, y, i) ==
  IF i > Len(x) THEN 0
  ELSE IF x[i] > y[i] THEN 1
  ELSE IF x[i] < y[i] THEN -1
  ELSE DigitsCompare(x, y, i + 1)
\* the integers two segments spell, compared
IntegerCompare(x, y) ==
  IF Len(StripZeros(x)) > Len(StripZeros(y)) THEN 1
  ELSE IF Len(StripZeros(x)) < Len(StripZeros(y)) THEN -1
  ELSE DigitsCompare(StripZeros(x), StripZeros(y), 1)
\* segment i of a version padded with zeros
Padded(v, i) == IF i <= Len(v) THEN v[i] ELSE <<0>>
\* the positions where the padded versions differ as integers
Differing(a, b) ==
  { i \in 1..Max(Len(a), Len(b)) : IntegerCompare(Padded(a, i), Padded(b, i)) # 0 }
\* the reference comparison: the first differing position decides
ReferenceCompare(a, b) ==
  IF Differing(a, b) = {} THEN 0
  ELSE LET first == CHOOSE i \in Differing(a, b) : \A j \in Differing(a, b) : i <= j
       IN IntegerCompare(Padded(a, first), Padded(b, first))
\* every segment is an integer a double holds exactly (at most 15 digits)
Exact(v) == \A i \in DOMAIN v : Len(StripZeros(v[i])) <= 15

\* C21 as stated: compareVersions(a, b) equals the reference comparison
\* (zero padding, first position where the integer values differ) for all
\* dotted-numeric strings, and compareVersions(a, a + ".0") = 0.
C21_EqualsReference ==
  last.op = "compareVersions"
    => /\ last.out = ReferenceCompare(last.arg.a, last.arg.b)
       /\ last.arg.b = Append(last.arg.a, <<0>>) => last.out = 0

\* C21 amended: compareVersions(a, b) equals the reference comparison for
\* the dotted-numeric strings whose segments are integers a double holds
\* exactly; compareVersions(a, a + ".0") = 0 for every dotted-numeric a.
C21_EqualsReferenceExact ==
  last.op = "compareVersions"
    => /\ (Exact(last.arg.a) /\ Exact(last.arg.b))
            => last.out = ReferenceCompare(last.arg.a, last.arg.b)
       /\ last.arg.b = Append(last.arg.a, <<0>>) => last.out = 0
C21_Witness ==
  /\ last.op = "compareVersions"
  /\ last.arg.a = << <<1, 0>> >>
  /\ last.arg.b = << <<1, 0>>, <<0>> >>
  /\ last.out = 0 /\ ReferenceCompare(last.arg.a, last.arg.b) = 0

\* the link names and the files a link may be pointed at
LinkNames == {"eza", "ezb"}
LinkTargets ==
  [root : {"sgoinfre"}, dir : {"alice_eza", "bob_eza"}, file : {"eza", "bin/eza"}]

FnSymlink ==
  /\ last.op = "none"
  /\ \E D \in CoreStartDisks \cup {EmptyDisk}, link \in LinkNames, target \in LinkTargets :
       last' = [NoOp EXCEPT
                  !.op = "symlink",
                  !.arg = [disk |-> D, link |-> link, target |-> target],
                  !.out = NodeSymlink(D, link, target)]
  /\ UNCHANGED <<configFile, cachedConfig, dbFile, sgoinfre, goinfre, bin, repoDb, pre, pc, snap, writer>>

\* C22: NodeFileSystem.symlink(source, target) on a target that already is
\* a symlink succeeds and replaces it: afterwards the link resolves to source.
C22_SymlinkReplaces ==
  (/\ last.op = "symlink"
   /\ last.arg.link \in DOMAIN last.arg.disk.bin
   /\ Resolves(last.arg.disk, last.arg.target))
    => /\ last.out.ok
       /\ last.arg.link \in DOMAIN last.out.disk.bin
       /\ last.out.disk.bin[last.arg.link] = last.arg.target

\* the files readFile is called on, and what is on disk: a set of paths
ReadPaths == {"package.json", "config.json", "nonexistent.txt"}
\* one entry of the injected logger
LogEntry(level, message) == [level |-> level, message |-> message]
\* the log before the call
LogsBefore == { <<>>, << LogEntry("info", <<"Registry manager initialized">>) >> }

\* NodeFileSystem.readFile(path): the bytes of the file, or a
\* FileSystemError READ_ERROR; the logger is not called
NodeReadFile(files, logs, path) ==
  IF path \in files
  THEN [ok |-> TRUE, code |-> "", message |-> <<>>, logs |-> logs]
  ELSE [ok |-> FALSE, code |-> "READ_ERROR",
        message |-> <<"Failed to read file", ": ", path>>, logs |-> logs]

FnReadFile ==
  /\ last.op = "none"
  /\ \E files \in SUBSET ReadPaths, logs \in LogsBefore, path \in ReadPaths :
       last' = [NoOp EXCEPT
                  !.op = "readFile",
                  !.arg = [files |-> files, logs |-> logs, path |-> path],
                  !.out = NodeReadFile(files, logs, path)]
  /\ UNCHANGED <<configFile, cachedConfig, dbFile, sgoinfre, goinfre, bin, repoDb, pre, pc, snap, writer>>

\* C23: when NodeFileSystem.readFile fails, an error-level entry whose
\* message contains 'Failed to read file' is on the injected logger when the
\* FileSystemError reaches the caller.
C23_ReadFailureLogged ==
  (last.op = "readFile" /\ ~last.out.ok)
    => \E i \in DOMAIN last.out.logs :
         /\ last.out.logs[i].level = "error"
         /\ \E j \in DOMAIN last.out.logs[i].message :
              last.out.logs[i].message[j] = "Failed to read file"

\* the references whose directories are compared
DirectoryProviders == {"", "alice", "alice_dev"}
DirectoryNames == {"eza", "dev_eza", "alice_eza"}
DirectoryReferences ==
  { Reference(provider, name) : provider \in DirectoryProviders, name \in DirectoryNames }

FnDirectory ==
  /\ last.op = "none"
  /\ \E first \in DirectoryReferences, second \in DirectoryReferences :
       last' = [NoOp EXCEPT
                  !.op = "getPackageDirectory",
                  !.arg = <<first, second>>,
                  !.out = <<getPackageDirectory(first), getPackageDirectory(second)>>]
  /\ UNCHANGED <<configFile, cachedConfig, dbFile, sgoinfre, goinfre, bin, repoDb, pre, pc, snap, writer>>

\* C27: references that differ in provider or name have different install
\* directories.
C27_DirectoriesDistinct ==
  (last.op = "getPackageDirectory" /\ last.arg[1] # last.arg[2])
    => last.out[1] # last.out[2]

NextFn ==
  \/ FnResolve \/ FnList \/ FnParse \/ FnCompare \/ FnSymlink \/ FnReadFile
  \/ FnDirectory
SpecFn == InitFn /\ [][NextFn]_vars

(***************************************************************************)
(* The database and the disk after the operations of the PackageManager    *)
(***************************************************************************)
\* the directory install made for a record
RecordDirectory(cfg) ==
  IF cfg.provider # Undefined THEN cfg.provider \o "_" \o cfg.name ELSE cfg.name

\* C24: after every completed PackageManager operation the filesystem is
\* consistent with the database: the install directory of every record
\* exists, and every binary a record declares has a symlink in the personal
\* bin directory that resolves into that package's directory, persistent or
\* mirrored.
C24_DiskMatchesDb ==
  \A i \in 1..Len(dbFile) :
    /\ RecordDirectory(dbFile[i].cfg) \in DOMAIN sgoinfre
    /\ \A j \in 1..Len(dbFile[i].cfg.binaries) :
         /\ LinkExists(Disk, Basename(dbFile[i].cfg.binaries[j]))
         /\ bin[Basename(dbFile[i].cfg.binaries[j])].dir = RecordDirectory(dbFile[i].cfg)

(***************************************************************************)
(* sync with copies that fail.  Only a package installed from a local path *)
(* has its persistent directory under the name of its key, so the disks    *)
(* hold two of them.                                                       *)
(***************************************************************************)
\* a second package installed from a local path
OtherLocalPackage ==
  [provider |-> Undefined, path |-> <<"/", "tmp", "/", "fd">>, dir |-> "fd",
   name |-> "fd", version |-> <<1, 0>>,
   binaries |-> << <<"fd">> >>, files |-> {"fd"}]
\* what resolvePackage returns for a local path
LocalSource(p) ==
  [ok |-> TRUE, type |-> "local", provider |-> Undefined, base |-> Basename(p.path),
   package |-> p]
\* the local packages installed in either order, on an empty disk or after
\* a provider package
BothLocal(D) ==
  { PMInstallSource(PMInstallRun(D, <<"/", "tmp", "/", "bat">>, FALSE).disk,
                    LocalSource(OtherLocalPackage), FALSE).disk,
    PMInstallRun(PMInstallSource(D, LocalSource(OtherLocalPackage), FALSE).disk,
                 <<"/", "tmp", "/", "bat">>, FALSE).disk }
SyncStartDisks ==
  BothLocal(EmptyDisk) \cup BothLocal(PMInstallRun(EmptyDisk, <<"eza">>, FALSE).disk)
\* the packages whose copy may fail
SyncNames == {"bat", "fd"}

InitSync ==
  /\ \E D \in SyncStartDisks :
       /\ dbFile = D.db
       /\ sgoinfre = D.sg
       /\ goinfre = D.go
       /\ bin = D.bin
  /\ repoDb = <<>>
  /\ last = NoOp
  /\ pre = EmptyDisk
  /\ Idle
  /\ RegistryUntouched

PMSyncWithFailures ==
  \E failing \in SUBSET SyncNames :
    /\ Store(PMSyncFailing(Disk, failing))
    /\ last' = [NoOp EXCEPT !.op = "sync", !.arg = failing, !.prior = Prior]
    /\ pre' = Disk
    /\ UNCHANGED <<configFile, cachedConfig, repoDb, pc, snap, writer>>

NextSync == PMSyncWithFailures \/ PMUninstall
SpecSync == InitSync /\ [][NextSync]_vars

\* C25: the per-package tasks of sync are independent: when the copy of one
\* package fails, every other recorded package whose persistent source
\* exists is copied into the mirror and has its binary symlinks recreated.
C25_SyncTasksIndependent ==
  last.op = "sync"
    => \A i \in 1..Len(pre.db) :
         (pre.db[i].key \notin last.arg /\ pre.db[i].key \in DOMAIN pre.sg)
           => /\ pre.db[i].key \in DOMAIN goinfre
              /\ goinfre[pre.db[i].key] = pre.sg[pre.db[i].key]
              /\ \A j \in 1..Len(pre.db[i].cfg.binaries) :
                   /\ Basename(pre.db[i].cfg.binaries[j]) \in DOMAIN bin
                   /\ bin[Basename(pre.db[i].cfg.binaries[j])]
                        = [root |-> "goinfre", dir |-> pre.db[i].key,
                           file |-> NormPath(pre.db[i].cfg.binaries[j])]
C25_Witness ==
  /\ last.op = "sync"
  /\ Len(pre.db) >= 2
  /\ pre.db[1].key \in last.arg /\ pre.db[1].key \in DOMAIN pre.sg
  /\ pre.db[1].key \notin DOMAIN goinfre
  /\ pre.db[2].key \notin last.arg /\ pre.db[2].key \in DOMAIN pre.sg
  /\ pre.db[2].key \in DOMAIN goinfre
  /\ LinkExists(Disk, Basename(pre.db[2].cfg.binaries[1]))

\* C26: uninstalling package A never removes a personal-bin symlink that
\* resolves into the directory of a different installed package B.
C26_UninstallKeepsOthersLinks ==
  (last.op = "uninstall" /\ last.ok)
    => \A link \in DOMAIN pre.bin :
         (/\ Resolves(pre, pre.bin[link])
          /\ pre.bin[link].dir # RecordDirectory(DbGet(pre.db, last.key))
          /\ \E i \in 1..Len(pre.db) :
               /\ pre.db[i].key # last.key
               /\ RecordDirectory(pre.db[i].cfg) = pre.bin[link].dir)
           => (link \in DOMAIN bin /\ bin[link] = pre.bin[link])

(***************************************************************************)
(* The provider list of the RegistryManager: addProvider, removeProvider   *)
(* and setDefaultProvider on one manager, whose getConfig reads            *)
(* config.json once and then hands out the cached object.  The calls       *)
(* change that object in place and then write it; the write may fail.  A   *)
(* new process starts without a cache.                                     *)
(***************************************************************************)
\* the user names passed to the calls; /sgoinfre/dave does not exist
Usernames == {"alice", "bob", "dave"}
ProviderPathExists(username) == username \in {"alice", "bob"}

\* getConfig(): the cached object, or config.json parsed
getConfig == IF cachedConfig.cached THEN cachedConfig.config ELSE configFile
Cached(config) == [cached |-> TRUE, config |-> config]

\* Array.prototype.includes and indexOf
Includes(list, x) == \E i \in 1..Len(list) : list[i] = x
IndexOf(list, x) == CHOOSE i \in 1..Len(list) : list[i] = x /\ \A j \in 1..(i - 1) : list[j] # x
\* list.splice(index, 1)
Splice(list, index) == SubSeq(list, 1, index - 1) \o SubSeq(list, index + 1, Len(list))

\* removeProvider's changes without the reset of the default provider
RemovedKeepingDefault(config, username) ==
  [config EXCEPT !.providers = Splice(config.providers, IndexOf(config.providers, username))]

\* removeProvider's changes to the configuration object
Removed(config, username) ==
  [providers |-> Splice(config.providers, IndexOf(config.providers, username)),
   defaultProvider |-> IF config.defaultProvider = username THEN Undefined
                       ELSE config.defaultProvider]

\* saveConfig(config): the object is already changed; the file and the
\* cache follow only when the write succeeds
SaveConfig(op, username, before, config, writes) ==
  /\ configFile' = IF writes THEN config ELSE configFile
  /\ cachedConfig' = Cached(config)
  /\ last' = [NoOp EXCEPT !.op = op, !.arg = username, !.ok = writes,
                          !.code = IF writes THEN "" ELSE "CONFIG_WRITE_ERROR",
                          !.out = before]

\* a call that ends before it changes anything
RegistryReturns(op, username, ok, code) ==
  /\ configFile' = configFile
  /\ cachedConfig' = Cached(getConfig)
  /\ last' = [NoOp EXCEPT !.op = op, !.arg = username, !.ok = ok, !.code = code,
                          !.out = getConfig]

RegistryAdd ==
  \E username \in Usernames, writes \in BOOLEAN :
    /\ IF Includes(getConfig.providers, username)
       THEN RegistryReturns("addProvider", username, TRUE, "")
       ELSE IF ~ProviderPathExists(username)
       THEN RegistryReturns("addProvider", username, FALSE, "PROVIDER_NOT_FOUND")
       ELSE SaveConfig("addProvider", username, getConfig,
                       [getConfig EXCEPT !.providers = Append(@, username)], writes)
    /\ UNCHANGED <<dbFile, sgoinfre, goinfre, bin, repoDb, pre, pc, snap, writer>>

RegistryRemove ==
  \E username \in Usernames, writes \in BOOLEAN :
    /\ IF ~Includes(getConfig.providers, username)
       THEN RegistryReturns("removeProvider", username, FALSE, "PROVIDER_NOT_FOUND")
       ELSE SaveConfig("removeProvider", username, getConfig,
                       Removed(getConfig, username), writes)
    /\ UNCHANGED <<dbFile, sgoinfre, goinfre, bin, repoDb, pre, pc, snap, writer>>

RegistrySetDefault ==
  \E username \in Usernames, writes \in BOOLEAN :
    /\ IF ~Includes(getConfig.providers, username)
       THEN RegistryReturns("setDefaultProvider", username, FALSE, "PROVIDER_NOT_FOUND")
       ELSE SaveConfig("setDefaultProvider", username, getConfig,
                       [getConfig EXCEPT !.defaultProvider = username], writes)
    /\ UNCHANGED <<dbFile, sgoinfre, goinfre, bin, repoDb, pre, pc, snap, writer>>

\* the next command runs in a new process
RegistryRestart ==
  /\ cachedConfig.cached
  /\ cachedConfig' = NotCached
  /\ last' = NoOp
  /\ UNCHANGED <<dbFile, sgoinfre, goinfre, bin, repoDb, pre, pc, snap, writer, configFile>>

NextRegistry == RegistryAdd \/ RegistryRemove \/ RegistrySetDefault \/ RegistryRestart
SpecRegistry == InitFn /\ [][NextRegistry]_vars

\* C28: after any sequence of addProvider, removeProvider and
\* setDefaultProvider calls from the default empty configuration, the
\* persisted configuration has a default provider that is unset or one of
\* its providers.
C28_DefaultIsProvider ==
  \/ configFile.defaultProvider = Undefined
  \/ Includes(configFile.providers, configFile.defaultProvider)
C28_Witness ==
  /\ last.op = "removeProvider" /\ last.arg = "alice"
  /\ last.ok
  /\ last.out.defaultProvider = "alice"
  /\ configFile.providers = <<"bob">>
  /\ configFile.defaultProvider = Undefined

\* C29: whenever PackageUpdater.update finishes, normally or by throwing
\* after a rollback, no backup directory <install directory>_backup_<version>
\* of the reference remains on disk.
C29_NoBackupRemains ==
  last.op = "updater.update"
    => \A version \in Versions :
         (LastDirectory \o "_backup_" \o VersionStr(version)) \notin DOMAIN sgoinfre

(***************************************************************************)
(* The PackageRepository with a database file whose write may fail.  save  *)
(* sets the record in the object getDatabase returned, which is the        *)
(* repository's own this.database, and writes the file afterwards.         *)
(***************************************************************************)
\* the packages and references passed to save
RepoPackages ==
  { [name |-> "eza", version |-> v, provider |-> Undefined, binaries |-> << <<"eza">> >>]
      : v \in { <<1, 0>>, <<1, 1>> } }
RepoReferences == { Reference("alice", "eza"), Reference("bob", "eza") }

\* saveDatabase(database): the file after the call
SaveDatabase(file, database, writes) == IF writes THEN database ELSE file

RepoSaveCall ==
  \E package \in RepoPackages, reference \in RepoReferences, writes \in BOOLEAN :
    /\ repoDb' = RepoSave(repoDb, package, reference).db
    /\ dbFile' = SaveDatabase(dbFile, RepoSave(repoDb, package, reference).db, writes)
    /\ last' = [NoOp EXCEPT !.op = "repo.save", !.arg = reference, !.ok = writes,
                            !.code = IF writes THEN "" ELSE "DB_SAVE_ERROR",
                            !.key = createKey(reference), !.package = package,
                            !.out = repoDb]
    /\ UNCHANGED <<configFile, cachedConfig, sgoinfre, goinfre, bin, pre, pc, snap, writer>>

RepoFindCall ==
  \E reference \in RepoReferences :
    /\ last' = [NoOp EXCEPT !.op = "repo.findByReference", !.arg = reference,
                            !.ok = RepoHas(repoDb, reference),
                            !.key = createKey(reference),
                            !.package = IF RepoHas(repoDb, reference)
                                        THEN findByReference(repoDb, reference)
                                        ELSE NoCfg,
                            !.out = repoDb]
    /\ UNCHANGED <<configFile, cachedConfig, dbFile, repoDb, sgoinfre, goinfre, bin, pre,
                   pc, snap, writer>>

NextRepo == RepoSaveCall \/ RepoFindCall
SpecRepo == InitFn /\ [][NextRepo]_vars

\* C30: when writing the database file fails during save(package,
\* reference), the in-memory database is left as it was before the call.
C30_FailedSaveKeepsMemory ==
  (last.op = "repo.save" /\ ~last.ok) => repoDb = last.out

====
